---- MODULE Spec2Model ----
(***************************************************************************)
(* A model of pyKinesis.py (Tracking Solar Telescope): the ThorController  *)
(* session over a serial connection, the wire encoding of its messages and *)
(* the controller at the other end of the link.                            *)
(*                                                                         *)
(* Bytes are integers 0..255 and a message is the sequence of its bytes.   *)
(* Real numbers are exact fractions: a position is PosNum / PosDen, a      *)
(* scale factor is ScaleNum / ScaleDen, a returned position is a pair of    *)
(* device units and scale factor.  The denominators are powers of two, so the *)
(* products the code computes in double precision are exact.               *)
(*                                                                         *)
(* Every method of the session is a sequence of primitive statements       *)
(* (write, reset_input_buffer, reset_output_buffer, sleep, read, ...).     *)
(* A call loads that sequence into todo and Step* actions execute it one   *)
(* statement at a time, so the controller (DeviceReceive, DeviceDone) acts *)
(* between any two statements.                                             *)
(***************************************************************************)
EXTENDS Integers, Sequences, FiniteSets, TLC

VARIABLES
    ctorArg,              \* the Controller_Type argument given to __init__
    Controller_Type,      \* self.Controller_Type
    posScaleFactor,       \* self.posScaleFactor, as a numerator over ScaleDen
    Serial_Port,          \* self.Serial_Port: "unset", "open" or "closed"
    session,              \* "new", "constructed" or "raised" (__init__ raised)
    call,                 \* the method being executed, or executed last
    todo,                 \* the statements of that method still to execute
    Rx,                   \* the local Rx / msg: the chunk returned by the last read
    opWrites,             \* the messages this call has written, in order
    opReads,              \* the reads this call has performed (counted up to MaxReads)
    result,               \* how the last call ended: none yet, returned or raised (exc)
    cmdsSinceKeepAlive,   \* commands written since the last keep-alive was written
    lastMove,             \* the last move-absolute message written: <<Position, target>>
    tx,                   \* messages written and not yet received by the controller
    rx,                   \* bytes sent by the controller and not yet read or discarded
    devBusy,              \* controller: "idle", "homing" or "moving"
    devPos,               \* controller: position counter, device units
    devTarget,            \* controller: target of the move in progress
    header,               \* codec: the five fields handed to pack('<HBBBB', ...)
    packed,               \* codec: the bytes pack returned (<<>>: not packed yet)
    unpacked,             \* codec: what unpack('<HHBB', ...) made of them (<<>>: not yet)
    ports,                \* discovery: what comports() enumerates, in order
    detectedDevices,      \* findControllers: the ports getAllDevices kept (their indices)
    deviceInfo,           \* findControllers: the device records appended so far
    fc,                   \* findControllers: the statement it is at
    fcIndex,              \* findControllers: the position of the loop in detectedDevices
    fcExc,                \* findControllers: the exception that ended it ("": none)
    ser,                  \* findControllers: the handle ser: "none", "open" or "closed"
    gdRx,                 \* getDestination: the local rx
    fcDest,               \* findControllers: dest, what getDestination returned (0: not yet)
    length,               \* getHWinfo: the length unpacked from the header
    probed,               \* the ports getDestination has written its request to
    script,               \* the tracking script: the statement it is at
    controller,           \* azimuthController and elevationController, by axis
    tracking_params,      \* the script's tracking_params
    trackingFile,         \* trackingParams.json: what the control panel wrote last
    azimuthPosition,      \* the script's azimuthPosition, over PosDen
    elevationPosition     \* the script's elevationPosition, over PosDen

vars == <<ctorArg, Controller_Type, posScaleFactor, Serial_Port, session, call, todo,
          Rx, opWrites, opReads, result, cmdsSinceKeepAlive, lastMove, tx, rx,
          devBusy, devPos, devTarget, header, packed, unpacked,
          ports, detectedDevices, deviceInfo, fc, fcIndex, fcExc, ser, gdRx, fcDest,
          length, probed,
          script, controller, tracking_params, trackingFile, azimuthPosition,
          elevationPosition>>

codecVars == <<header, packed, unpacked>>

discVars == <<ports, detectedDevices, deviceInfo, fc, fcIndex, fcExc, ser, gdRx, fcDest,
              length, probed>>

trackVars == <<script, controller, tracking_params, trackingFile, azimuthPosition,
               elevationPosition>>

hostVars == <<ctorArg, Controller_Type, posScaleFactor, Serial_Port, session, call, todo,
              Rx, opWrites, opReads, result, cmdsSinceKeepAlive, lastMove, codecVars,
              discVars, trackVars>>

devVars == <<devBusy, devPos, devTarget>>

---------------------------------------------------------------------------
(* Bounds of the model.                                                    *)

\* channels are 1..MaxChannel
MaxChannel == 2
\* the controller sends a message only while at most this many bytes are unread
MaxBacklog == 6
\* opReads stops counting here
MaxReads == 1
\* in Spec, cmdsSinceKeepAlive stops counting here
MaxUnacked == 1
\* a message is written only while fewer messages than this are in flight
MaxInFlight == 2
\* positions are PosNum / PosDen
PosDen == 4
\* scale factors are ScaleNum / ScaleDen
ScaleDen == 2

Channels == 1..MaxChannel

\* positions offered to Move_Absolute: -1.25, -0.25, 1.25, 25.0
PosNums == {-5, -1, 5, 100}

\* scale factors offered to __init__: 1.5 and 2000.0
ScaleNums == {3, 4000}

\* Controller_Type arguments offered to __init__
CtorArgs == {"cube", "Benchtop", "rack"}

---------------------------------------------------------------------------
(* Program constants.                                                      *)

KeepAliveLimit == 50
Bytes == 0..255
TwoTo16 == 65536

MGMSG_HW_REQ_INFO == 5
MGMSG_HW_GET_INFO == MGMSG_HW_REQ_INFO + 1
MGMSG_HW_NO_FLASH_PROGRAMMING == 24
MGMSG_MOD_SET_CHANENABLESTATE == 528
MGMSG_MOD_IDENTIFY == 547
MGMSG_MOT_REQ_ENCCOUNTER == 1034
MGMSG_MOT_GET_ENCCOUNTER == MGMSG_MOT_REQ_ENCCOUNTER + 1
MGMSG_MOT_REQ_POSCOUNTER == 1041
MGMSG_MOT_GET_POSCOUNTER == MGMSG_MOT_REQ_POSCOUNTER + 1
MGMSG_MOT_MOVE_HOME == 1091
MGMSG_MOT_MOVE_HOMED == 1092
MGMSG_MOT_MOVE_ABSOLUTE == 1107
MGMSG_MOT_MOVE_COMPLETED == 1124
MGMSG_MOT_REQ_DCSTATUSUPDATE == 1168
MGMSG_MOT_GET_DCSTATUSUPDATE == MGMSG_MOT_REQ_DCSTATUSUPDATE + 1
MGMSG_MOT_ACK_DCSTATUSUPDATE == 1170

source_byte == 1

---------------------------------------------------------------------------
(* struct.pack / struct.unpack, little-endian, no padding ('<').           *)

Min(a, b) == IF a <= b THEN a ELSE b

Take(s, n) == SubSeq(s, 1, Min(n, Len(s)))

Drop(s, n) == SubSeq(s, n + 1, Len(s))

\* a run of n copies of byte b
RECURSIVE Fill(_, _)
Fill(b, n) == IF n <= 0 THEN <<>> ELSE <<b>> \o Fill(b, n - 1)

\* 'H': unsigned 16-bit, low byte first
packH(x) == <<x % 256, (x \div 256) % 256>>

unpackHBigEndian(b, i) == 256 * b[i] + b[i + 1]

unpackH(b, i) == b[i] + 256 * b[i + 1]

\* 'I': unsigned 32-bit, low byte first
packI(x) == <<x % 256, (x \div 256) % 256, (x \div 65536) % 256, (x \div 16777216) % 256>>

\* a 32-bit value read from the wire: its low and its high 16 bits (the
\* whole value can exceed what the checker's integers hold)
unpackI(b, i) == <<unpackH(b, i), unpackH(b, i + 2)>>

\* the number such a pair stands for, when the high half is below 2^15
valueOf(w) == w[1] + TwoTo16 * w[2]

\* struct.pack raises struct.error for a value outside the format's range
fitsB(x) == x \in Bytes

fitsH(x) == x >= 0 /\ x < TwoTo16

\* 0 <= x < 2^32
fitsI(x) == x >= 0 /\ x \div TwoTo16 < TwoTo16

\* pack('<HBBBB', message_id, param1, param2, destination, source)
pack_HBBBB(id, p1, p2, dest, src) == packH(id) \o <<p1, p2, dest, src>>

\* pack('<HBBBBHI', message_id, param1, param2, destination, source, h, i)
pack_HBBBBHI(id, p1, p2, dest, src, h, i) ==
    packH(id) \o <<p1, p2, dest, src>> \o packH(h) \o packI(i)

\* unpack('<HHBB', header): msgid, length, destOR, source
unpack_HHBB(b) == <<unpackH(b, 1), unpackH(b, 3), b[5], b[6]>>

\* unpack('<6sHI', msg): header, chan_dent, position_dUnits
unpack_6sHI(b) == <<SubSeq(b, 1, 6), unpackH(b, 7), unpackI(b, 9)>>

\* unpack('<8sIHHI', msg): unused, positionDU, velocityDU, reserved, status_bits
unpack_8sIHHI(b) ==
    <<SubSeq(b, 1, 8), unpackI(b, 9), unpackH(b, 13), unpackH(b, 15), unpackI(b, 17)>>

\* x | 0x80 on a byte
SameByte(x) == x

Or80(x) == IF x >= 128 THEN x ELSE x + 128

msgId(m) == unpackH(m, 1)

---------------------------------------------------------------------------
(* Unit conversion.                                                        *)

\* int(x) of the fraction n / d, d > 0: Python's int() drops the fraction,
\* towards zero
Trunc(n, d) == IF n >= 0 THEN n \div d ELSE -((-n) \div d)

\* round(x) of the fraction n / d, d > 0: the nearest integer, a tie to the even one
Round(n, d) ==
    LET q == n \div d
        r == n - q * d
    IN  IF 2 * r < d THEN q
        ELSE IF 2 * r > d THEN q + 1
        ELSE IF q % 2 = 0 THEN q ELSE q + 1

\* dUnitpos = round(posScaleFactor * Position): what the conversion is not
dUnitposRounded(Position) == Round(posScaleFactor * Position, ScaleDen * PosDen)

\* dUnitpos = int(self.posScaleFactor*Position)
dUnitpos(Position) == Trunc(posScaleFactor * Position, ScaleDen * PosDen)

\* position_dUnits/float(self.posScaleFactor): <<lo, hi, s>> stands for
\* (lo + 65536 * hi) / (s / ScaleDen)
toRealUnits(dUnits) == dUnits \o <<posScaleFactor>>

\* velocityDU/204.8, as <<numerator, denominator>>
toRealVelocity(velocityDU) == <<velocityDU * 10, 2048>>

---------------------------------------------------------------------------
(* The statements a method is made of.                                     *)

Stmt(op, arg, n) == [op |-> op, arg |-> arg, n |-> n]

\* self.Serial_Port.write(msg)
Write(msg) == Stmt("write", msg, 0)

reset_input_buffer == Stmt("reset_input_buffer", <<>>, 0)

reset_output_buffer == Stmt("reset_output_buffer", <<>>, 0)

\* time.sleep(0.1)
Sleep == Stmt("sleep", <<>>, 0)

\* while Rx != code: Rx = self.Serial_Port.read(2)
WaitFor(code) == Stmt("wait", code, 2)

\* unpack(fmt, self.Serial_Port.read(n)), fmt of n bytes
ReadUnpackNothing(n) == Stmt("read_unpack", <<>>, 0)

ReadUnpack(n) == Stmt("read_unpack", <<>>, n)

Return == Stmt("return", <<>>, 0)

\* the argument of a write could not be packed
RaiseStructError == Stmt("raise", <<>>, 0)

---------------------------------------------------------------------------
(* ThorController.                                                         *)

Controller_Types == {"cube", "benchtop"}

\* str.lower() on the arguments the model offers
Lower(s) == IF s = "Benchtop" THEN "benchtop" ELSE s

AcceptAnyType(t) == TRUE

\* the negation of: self.Controller_Type not in self.Controller_Types
ValidType(t) == t \in Controller_Types

get_destination_byte_swapped(channel_num) ==
    IF Controller_Type = "benchtop" THEN 80 ELSE 32 + channel_num

get_destination_byte(channel_num) ==
    IF Controller_Type = "benchtop" THEN 32 + channel_num ELSE 80

Flush_Buffers == <<reset_input_buffer, reset_output_buffer>>

Stay_Alive_Nothing(channel_num) == <<>>

Stay_Alive(channel_num) ==
    <<Write(pack_HBBBB(MGMSG_MOT_ACK_DCSTATUSUPDATE, 0, 0,
                       get_destination_byte(channel_num), source_byte))>>

Initialize_NoFlush(channel_num) ==
    <<Write(pack_HBBBB(MGMSG_HW_REQ_INFO, 0, 0,
                       get_destination_byte(channel_num), source_byte)),
      reset_input_buffer,
      reset_output_buffer,
      Write(pack_HBBBB(MGMSG_HW_NO_FLASH_PROGRAMMING, 0, 0,
                       get_destination_byte(channel_num), source_byte)),
      Return>>

Initialize(channel_num) ==
    <<Write(pack_HBBBB(MGMSG_HW_REQ_INFO, 0, 0,
                       get_destination_byte(channel_num), source_byte)),
      reset_input_buffer,
      reset_output_buffer,
      Write(pack_HBBBB(MGMSG_HW_NO_FLASH_PROGRAMMING, 0, 0,
                       get_destination_byte(channel_num), source_byte))>>
    \o Flush_Buffers
    \o <<Return>>

Identify_ToChannel(channel_num) ==
    <<Write(pack_HBBBB(MGMSG_MOD_IDENTIFY, 1, 0,
                       get_destination_byte(channel_num), source_byte))>>
    \o Stay_Alive(channel_num)
    \o Flush_Buffers
    \o <<Return>>

Identify(channel_num) ==
    (IF Controller_Type = "cube"
       THEN <<Write(pack_HBBBB(MGMSG_MOD_IDENTIFY, 1, 0, 80, source_byte))>>
       ELSE IF Controller_Type = "benchtop"
       THEN <<Write(pack_HBBBB(MGMSG_MOD_IDENTIFY, channel_num, 0, 17, source_byte))>>
       ELSE <<>>)
    \o Stay_Alive(channel_num)
    \o Flush_Buffers
    \o <<Return>>

\* one round of Enable_Channel / Disable_Channel: the message, the pause,
\* the flush and the keep-alive
EnableRound(param1, state, channel_num) ==
    <<Write(pack_HBBBB(MGMSG_MOD_SET_CHANENABLESTATE, param1, state,
                       get_destination_byte(channel_num), source_byte)),
      Sleep>>
    \o Flush_Buffers
    \o Stay_Alive(channel_num)

Enable_Channel_Once(channel_num) == EnableRound(1, 1, channel_num) \o <<Return>>

Enable_Channel(channel_num) ==
    EnableRound(1, 1, channel_num)
    \o (IF Controller_Type = "benchtop" THEN EnableRound(1, 1, channel_num) ELSE <<>>)
    \o <<Return>>

Disable_Channel(channel_num) ==
    EnableRound(channel_num, 2, channel_num)
    \o (IF Controller_Type = "benchtop" THEN EnableRound(1, 2, channel_num) ELSE <<>>)
    \o <<Return>>

\* Homed = pack('<H',0x0444)
Homed == packH(MGMSG_MOT_MOVE_HOMED)

\* Move_Complete = pack('<H',0x0464)
Move_Complete == packH(MGMSG_MOT_MOVE_COMPLETED)

Home_Always_Waits(channel_num, wait) ==
    <<Write(pack_HBBBB(MGMSG_MOT_MOVE_HOME, 1, 0,
                       get_destination_byte(channel_num), source_byte)),
      WaitFor(Homed)>>
    \o Flush_Buffers
    \o Stay_Alive(channel_num)
    \o <<Return>>

Home(channel_num, wait) ==
    <<Write(pack_HBBBB(MGMSG_MOT_MOVE_HOME, 1, 0,
                       get_destination_byte(channel_num), source_byte))>>
    \o (IF wait THEN <<WaitFor(Homed)>> ELSE <<>>)
    \o Flush_Buffers
    \o Stay_Alive(channel_num)
    \o <<Return>>

\* the arguments of pack('<HBBBBHI', ...) in Move_Absolute fit their formats
MoveEncodable(Position, channel_num) ==
    /\ fitsB(Or80(get_destination_byte(channel_num)))
    /\ fitsI(dUnitpos(Position))

Move_Absolute_ChanIdent(Position, channel_num, wait) ==
    IF ~MoveEncodable(Position, channel_num)
    THEN <<RaiseStructError>>
    ELSE <<Write(pack_HBBBBHI(MGMSG_MOT_MOVE_ABSOLUTE, 6, 0,
                              Or80(get_destination_byte(channel_num)), source_byte,
                              channel_num, dUnitpos(Position)))>>
         \o (IF wait THEN <<WaitFor(Move_Complete)>> ELSE <<>>)
         \o Flush_Buffers
         \o Stay_Alive(channel_num)
         \o <<Return>>

Move_Absolute(Position, channel_num, wait) ==
    IF ~MoveEncodable(Position, channel_num)
    THEN <<RaiseStructError>>
    ELSE <<Write(pack_HBBBBHI(MGMSG_MOT_MOVE_ABSOLUTE, 6, 0,
                              Or80(get_destination_byte(channel_num)), source_byte,
                              1, dUnitpos(Position)))>>
         \o (IF wait THEN <<WaitFor(Move_Complete)>> ELSE <<>>)
         \o Flush_Buffers
         \o Stay_Alive(channel_num)
         \o <<Return>>

getPosition(channel_num) ==
    Flush_Buffers
    \o <<Write(pack_HBBBB(MGMSG_MOT_REQ_POSCOUNTER, 1, 0,
                          get_destination_byte(channel_num), source_byte)),
         ReadUnpack(12)>>
    \o Stay_Alive(channel_num)
    \o Flush_Buffers
    \o <<Return>>

get_status_Update(channel_num) ==
    Flush_Buffers
    \o <<Write(pack_HBBBB(MGMSG_MOT_REQ_DCSTATUSUPDATE, 1, 0,
                          get_destination_byte(channel_num), source_byte)),
         ReadUnpack(20)>>
    \o Flush_Buffers
    \o Stay_Alive(channel_num)
    \o <<Return>>

getEncCounter(channel_num) ==
    Flush_Buffers
    \o <<Write(pack_HBBBB(MGMSG_MOT_REQ_ENCCOUNTER, 1, 0,
                          get_destination_byte(channel_num), source_byte)),
         ReadUnpack(12)>>
    \o Stay_Alive(channel_num)
    \o Flush_Buffers
    \o <<Return>>

Close_Port == <<Stmt("close", <<>>, 0), Return>>

Open_Port == <<Stmt("open", <<>>, 0), Return>>

\* what the method returns, from the reply in Rx
ReturnValueWrongScale(name) ==
    IF name \in {"getPosition", "getEncCounter"}
    THEN unpack_6sHI(Rx)[3] \o <<posScaleFactor + 1>>
    ELSE <<>>

ReturnValue(name) ==
    IF name \in {"getPosition", "getEncCounter"}
    THEN toRealUnits(unpack_6sHI(Rx)[3])
    ELSE IF name = "get_status_Update"
    THEN toRealUnits(unpack_8sIHHI(Rx)[2]) \o toRealVelocity(unpack_8sIHHI(Rx)[3])
    ELSE <<>>

---------------------------------------------------------------------------
(* The controller at the other end of the link (the messages of the        *)
(* protocol the session's comments name).  It is of the kind the session   *)
(* was constructed for.                                                    *)

\* the address a reply comes from: the address the request went to
ReplySource(m) == IF m[5] >= 128 THEN m[5] - 128 ELSE m[5]

\* the address unsolicited messages come from: the cube, or bay 1 of the rack
DeviceAddr == get_destination_byte(1)

\* MGMSG_MOT_MOVE_HOMED / MGMSG_MOT_MOVE_COMPLETED: a header, to the host
Confirmation(id) == pack_HBBBB(id, 1, 0, source_byte, DeviceAddr)

\* MGMSG_MOT_GET_POSCOUNTER / MGMSG_MOT_GET_ENCCOUNTER: header, channel, counter
CounterReply(id, addr, chan, counter) ==
    pack_HBBBBHI(id, 6, 0, Or80(source_byte), addr, chan, counter)

\* MGMSG_MOT_GET_DCSTATUSUPDATE: header, channel, position, velocity, reserved, status bits
StatusReply(addr, chan, counter, velocity) ==
    pack_HBBBB(MGMSG_MOT_GET_DCSTATUSUPDATE, 14, 0, Or80(source_byte), addr)
    \o packH(chan) \o packI(counter) \o packH(velocity) \o packH(0) \o packI(0)

\* MGMSG_HW_GET_INFO: header and the 84 bytes getHWinfo unpacks with '<I8sHI48s12xHHH'
HWInfoReply(addr) ==
    pack_HBBBB(MGMSG_HW_GET_INFO, 84, 0, Or80(source_byte), addr)
    \o packI(27000001) \o <<75, 68, 67, 49, 48, 49, 0, 0>> \o packH(16) \o packI(65541)
    \o Fill(0, 48) \o Fill(0, 12) \o packH(1) \o packH(0) \o packH(1)

\* what the controller answers on receiving m, if anything
DeviceReply(m) ==
    LET id == msgId(m)
    IN  IF id = MGMSG_MOT_REQ_POSCOUNTER
          THEN CounterReply(MGMSG_MOT_GET_POSCOUNTER, ReplySource(m), m[3], devPos)
        ELSE IF id = MGMSG_MOT_REQ_ENCCOUNTER
          THEN CounterReply(MGMSG_MOT_GET_ENCCOUNTER, ReplySource(m), m[3], devPos)
        ELSE IF id = MGMSG_MOT_REQ_DCSTATUSUPDATE
          THEN StatusReply(ReplySource(m), m[3], devPos, 0)
        ELSE IF id = MGMSG_HW_REQ_INFO
          THEN HWInfoReply(ReplySource(m))
        ELSE <<>>

\* what arrives at a port: nothing when the port is not open
Arriving(bytes) == IF Serial_Port = "open" THEN rx \o bytes ELSE rx

\* the controller receives the oldest message in flight and answers it
DeviceReceive ==
    /\ tx # <<>>
    /\ LET m == Head(tx)
           id == msgId(m)
           reply == DeviceReply(m)
       IN  /\ reply # <<>> => Len(rx) <= MaxBacklog
           /\ tx' = Tail(tx)
           /\ rx' = Arriving(reply)
           /\ devBusy' = IF id = MGMSG_MOT_MOVE_HOME THEN "homing"
                         ELSE IF id = MGMSG_MOT_MOVE_ABSOLUTE THEN "moving"
                         ELSE devBusy
           /\ devTarget' = IF id = MGMSG_MOT_MOVE_ABSOLUTE THEN valueOf(unpackI(m, 9))
                           ELSE IF id = MGMSG_MOT_MOVE_HOME THEN 0
                           ELSE devTarget
           /\ UNCHANGED devPos
    /\ UNCHANGED hostVars

\* the stage reaches its home position, or its target, and the controller
\* says so
DeviceDone ==
    /\ devBusy # "idle"
    /\ Len(rx) <= MaxBacklog
    /\ devBusy' = "idle"
    /\ devPos' = devTarget
    /\ devTarget' = 0
    /\ rx' = Arriving(Confirmation(IF devBusy = "homing" THEN MGMSG_MOT_MOVE_HOMED
                                   ELSE MGMSG_MOT_MOVE_COMPLETED))
    /\ UNCHANGED tx
    /\ UNCHANGED hostVars

---------------------------------------------------------------------------
(* The session: construction, calls and the execution of statements.       *)

NoCall == [name |-> "none", channel |-> 0, wait |-> FALSE, position |-> 0]

\* lastMove before any move-absolute message is written
NoMove == <<>>

NoResult == [kind |-> "none", exc |-> ""]

Returned == [kind |-> "returned", exc |-> ""]

Raised(e) == [kind |-> "raised", exc |-> e]

\* nothing is constructed, nothing is on the link
Idle ==
    /\ ctorArg = ""
    /\ Controller_Type = ""
    /\ posScaleFactor = 0
    /\ Serial_Port = "unset"
    /\ session = "new"
    /\ call = NoCall
    /\ todo = <<>>
    /\ Rx = <<>>
    /\ opWrites = <<>>
    /\ opReads = 0
    /\ result = NoResult
    /\ cmdsSinceKeepAlive = 0
    /\ lastMove = NoMove
    /\ tx = <<>>
    /\ rx = <<>>
    /\ devBusy = "idle"
    /\ devPos = 0
    /\ devTarget = 0

NoHeader == <<0, 0, 0, 0, 0>>

\* findControllers has not been called
NoDiscovery ==
    /\ detectedDevices = <<>>
    /\ deviceInfo = <<>>
    /\ fc = "idle"
    /\ fcIndex = 0
    /\ fcExc = ""
    /\ ser = "none"
    /\ gdRx = <<>>
    /\ fcDest = 0
    /\ length = 0
    /\ probed = {}

\* the two axes of the telescope
Axes == {"azimuth", "elevation"}

\* a name no ThorController is bound to yet
NoController == [Serial_Port |-> "none", invoked |-> {}, moves |-> 0]

\* the parameters before the control panel changes any
defaultParams == [azimuthOffset |-> 0, elevationOffset |-> 0, killTracking |-> 0]

\* the tracking script is not running
NoTracking ==
    /\ script = "idle"
    /\ controller = [a \in Axes |-> NoController]
    /\ tracking_params = defaultParams
    /\ trackingFile = defaultParams
    /\ azimuthPosition = 0
    /\ elevationPosition = 0

Init ==
    /\ Idle
    /\ header = NoHeader
    /\ packed = <<>>
    /\ unpacked = <<>>
    /\ ports = <<>>
    /\ NoDiscovery
    /\ NoTracking

\* ThorController(PORT, Scale_Factors, Controller_Type); opens says whether
\* serial.Serial could open the port
Construct(arg, scale, opens) ==
    /\ session = "new"
    /\ ctorArg' = arg
    /\ Controller_Type' = Lower(arg)
    /\ IF ~ValidType(Lower(arg))
       THEN /\ session' = "raised"
            /\ result' = Raised("Exception")
            /\ UNCHANGED <<posScaleFactor, Serial_Port>>
       ELSE /\ session' = "constructed"
            /\ posScaleFactor' = scale
            /\ Serial_Port' = IF opens THEN "open" ELSE "unset"
            /\ UNCHANGED result
    /\ UNCHANGED <<call, todo, Rx, opWrites, opReads, cmdsSinceKeepAlive, lastMove, tx, rx>>
    /\ UNCHANGED devVars
    /\ UNCHANGED codecVars
    /\ UNCHANGED discVars
    /\ UNCHANGED trackVars

CallOf(name, ch, wait, pos) == [name |-> name, channel |-> ch, wait |-> wait, position |-> pos]

\* a method is called, once the output buffer has drained: its statements
\* are loaded and its locals are fresh
Begin(c, program) ==
    /\ session = "constructed"
    /\ todo = <<>>
    /\ tx = <<>>
    /\ call' = c
    /\ todo' = program
    /\ Rx' = <<>>
    /\ opWrites' = <<>>
    /\ opReads' = 0
    /\ result' = NoResult
    /\ UNCHANGED <<ctorArg, Controller_Type, posScaleFactor, Serial_Port, session,
                   cmdsSinceKeepAlive, tx, rx>>
    /\ UNCHANGED devVars
    /\ UNCHANGED codecVars
    /\ UNCHANGED discVars
    /\ UNCHANGED trackVars

CallInitialize(chs) ==
    /\ \E ch \in chs : Begin(CallOf("Initialize", ch, FALSE, 0), Initialize(ch))
    /\ UNCHANGED lastMove

CallIdentify(chs) ==
    /\ \E ch \in chs : Begin(CallOf("Identify", ch, FALSE, 0), Identify(ch))
    /\ UNCHANGED lastMove

CallEnable_Channel(chs) ==
    /\ \E ch \in chs : Begin(CallOf("Enable_Channel", ch, FALSE, 0), Enable_Channel(ch))
    /\ UNCHANGED lastMove

CallDisable_Channel(chs) ==
    /\ \E ch \in chs : Begin(CallOf("Disable_Channel", ch, FALSE, 0), Disable_Channel(ch))
    /\ UNCHANGED lastMove

CallHome(chs) ==
    /\ \E ch \in chs, wait \in BOOLEAN : Begin(CallOf("Home", ch, wait, 0), Home(ch, wait))
    /\ UNCHANGED lastMove

CallMove_Absolute(chs, ps) ==
    /\ \E p \in ps, ch \in chs, wait \in BOOLEAN :
           Begin(CallOf("Move_Absolute", ch, wait, p), Move_Absolute(p, ch, wait))
    /\ UNCHANGED lastMove

CallgetPosition(chs) ==
    /\ \E ch \in chs : Begin(CallOf("getPosition", ch, FALSE, 0), getPosition(ch))
    /\ UNCHANGED lastMove

Callget_status_Update(chs) ==
    /\ \E ch \in chs : Begin(CallOf("get_status_Update", ch, FALSE, 0), get_status_Update(ch))
    /\ UNCHANGED lastMove

CallgetEncCounter(chs) ==
    /\ \E ch \in chs : Begin(CallOf("getEncCounter", ch, FALSE, 0), getEncCounter(ch))
    /\ UNCHANGED lastMove

CallClose_Port ==
    /\ Begin(CallOf("Close_Port", 0, FALSE, 0), Close_Port)
    /\ UNCHANGED lastMove

CallOpen_Port ==
    /\ Begin(CallOf("Open_Port", 0, FALSE, 0), Open_Port)
    /\ UNCHANGED lastMove

\* the statement to execute next
Next1 == Head(todo)

At(op) == todo # <<>> /\ Next1.op = op

\* the exception a statement on self.Serial_Port ends in when the port is
\* not there or not open
PortError == IF Serial_Port = "unset" THEN "AttributeError" ELSE "SerialException"

\* the session changes nothing of its own fields while a method runs
Fields == <<ctorArg, Controller_Type, posScaleFactor, session>>

\* the locals of a method
Locals == <<call, Rx, opWrites, opReads>>

\* the method is over: its locals are gone
Forget ==
    /\ call' = NoCall
    /\ Rx' = <<>>
    /\ opWrites' = <<>>
    /\ opReads' = 0

\* the statement raises e, which ends the method
Fail(e) ==
    /\ todo' = <<>>
    /\ result' = Raised(e)
    /\ Forget

\* the statement is done
Go ==
    /\ todo' = Tail(todo)
    /\ UNCHANGED result

\* the count of commands since the last keep-alive, after writing msg; it
\* stops counting at cap
Counted(cap, msg) ==
    IF msgId(msg) = MGMSG_MOT_ACK_DCSTATUSUPDATE THEN 0
    ELSE Min(cap, cmdsSinceKeepAlive + 1)

\* lastMove, after writing msg, when the model remembers moves
Moved(msg) ==
    IF msgId(msg) = MGMSG_MOT_MOVE_ABSOLUTE
    THEN <<call.position, valueOf(unpackI(msg, 9))>>
    ELSE lastMove

StepWrite(cap, remember) ==
    /\ At("write")
    /\ IF Serial_Port = "open"
       THEN /\ Len(tx) < MaxInFlight
            /\ Go
            /\ tx' = Append(tx, Next1.arg)
            /\ opWrites' = Append(opWrites, Next1.arg)
            /\ cmdsSinceKeepAlive' = Counted(cap, Next1.arg)
            /\ lastMove' = IF remember THEN Moved(Next1.arg) ELSE lastMove
            /\ UNCHANGED <<call, Rx, opReads>>
       ELSE /\ Fail(PortError)
            /\ UNCHANGED <<tx, cmdsSinceKeepAlive, lastMove>>
    /\ UNCHANGED <<Fields, Serial_Port, rx>>
    /\ UNCHANGED devVars
    /\ UNCHANGED codecVars
    /\ UNCHANGED discVars
    /\ UNCHANGED trackVars

\* reset_input_buffer discards the bytes that have arrived
StepResetInput ==
    /\ At("reset_input_buffer")
    /\ IF Serial_Port = "open"
       THEN /\ Go
            /\ rx' = <<>>
            /\ UNCHANGED Locals
       ELSE /\ Fail(PortError)
            /\ UNCHANGED rx
    /\ UNCHANGED <<Fields, Serial_Port, cmdsSinceKeepAlive, tx>>
    /\ UNCHANGED lastMove
    /\ UNCHANGED devVars
    /\ UNCHANGED codecVars
    /\ UNCHANGED discVars
    /\ UNCHANGED trackVars

\* reset_output_buffer discards what is written and not yet transmitted
StepResetOutput ==
    /\ At("reset_output_buffer")
    /\ IF Serial_Port = "open"
       THEN /\ Go
            /\ tx' = <<>>
            /\ UNCHANGED Locals
       ELSE /\ Fail(PortError)
            /\ UNCHANGED tx
    /\ UNCHANGED <<Fields, Serial_Port, cmdsSinceKeepAlive, rx>>
    /\ UNCHANGED lastMove
    /\ UNCHANGED devVars
    /\ UNCHANGED codecVars
    /\ UNCHANGED discVars
    /\ UNCHANGED trackVars

StepSleep ==
    /\ At("sleep")
    /\ Go
    /\ UNCHANGED <<Fields, Locals, Serial_Port, cmdsSinceKeepAlive, tx, rx>>
    /\ UNCHANGED lastMove
    /\ UNCHANGED devVars
    /\ UNCHANGED codecVars
    /\ UNCHANGED discVars
    /\ UNCHANGED trackVars

CountRead == IF opReads < MaxReads THEN opReads + 1 ELSE opReads

WaitDoneOnFirstByte(chunk, code) == chunk # <<>> /\ chunk[1] = code[1]

\* the negation of the loop condition: Rx != Homed, Rx != Move_Complete
WaitDone(chunk, code) == chunk = code

\* Rx = self.Serial_Port.read(2): two bytes, or fewer when the timeout ends the read
StepWaitRead ==
    /\ At("wait")
    /\ ~WaitDone(Rx, Next1.arg)
    /\ IF Serial_Port = "open"
       THEN /\ \E k \in 0..Min(Next1.n, Len(rx)) :
                   /\ Rx' = Take(rx, k)
                   /\ rx' = Drop(rx, k)
            /\ opReads' = CountRead
            /\ UNCHANGED <<todo, result, call, opWrites>>
       ELSE /\ Fail(PortError)
            /\ UNCHANGED rx
    /\ UNCHANGED <<Fields, Serial_Port, cmdsSinceKeepAlive, tx>>
    /\ UNCHANGED lastMove
    /\ UNCHANGED devVars
    /\ UNCHANGED codecVars
    /\ UNCHANGED discVars
    /\ UNCHANGED trackVars

\* the loop ends
StepWaitExit ==
    /\ At("wait")
    /\ WaitDone(Rx, Next1.arg)
    /\ Go
    /\ UNCHANGED <<Fields, Locals, Serial_Port, cmdsSinceKeepAlive, tx, rx>>
    /\ UNCHANGED lastMove
    /\ UNCHANGED devVars
    /\ UNCHANGED codecVars
    /\ UNCHANGED discVars
    /\ UNCHANGED trackVars

\* unpack(fmt, self.Serial_Port.read(n)): struct.error unless n bytes came
StepReadUnpack ==
    /\ At("read_unpack")
    /\ IF Serial_Port = "open"
       THEN \E k \in 0..Min(Next1.n, Len(rx)) :
                /\ rx' = Drop(rx, k)
                /\ IF k = Next1.n
                   THEN /\ Go
                        /\ Rx' = Take(rx, k)
                        /\ opReads' = CountRead
                        /\ UNCHANGED <<call, opWrites>>
                   ELSE Fail("struct.error")
       ELSE /\ Fail(PortError)
            /\ UNCHANGED rx
    /\ UNCHANGED <<Fields, Serial_Port, cmdsSinceKeepAlive, tx>>
    /\ UNCHANGED lastMove
    /\ UNCHANGED devVars
    /\ UNCHANGED codecVars
    /\ UNCHANGED discVars
    /\ UNCHANGED trackVars

StepRaise ==
    /\ At("raise")
    /\ Fail("struct.error")
    /\ UNCHANGED <<Fields, Serial_Port, cmdsSinceKeepAlive, tx, rx>>
    /\ UNCHANGED lastMove
    /\ UNCHANGED devVars
    /\ UNCHANGED codecVars
    /\ UNCHANGED discVars
    /\ UNCHANGED trackVars

\* self.Serial_Port.close()
StepClose ==
    /\ At("close")
    /\ IF Serial_Port = "unset"
       THEN /\ Fail(PortError)
            /\ UNCHANGED <<Serial_Port, rx>>
       ELSE /\ Go
            /\ Serial_Port' = "closed"
            /\ rx' = <<>>
            /\ UNCHANGED Locals
    /\ UNCHANGED <<Fields, cmdsSinceKeepAlive, tx>>
    /\ UNCHANGED lastMove
    /\ UNCHANGED devVars
    /\ UNCHANGED codecVars
    /\ UNCHANGED discVars
    /\ UNCHANGED trackVars

\* self.Serial_Port.open(): an open port cannot be opened again
StepOpen ==
    /\ At("open")
    /\ IF Serial_Port = "closed"
       THEN /\ Go
            /\ Serial_Port' = "open"
            /\ UNCHANGED Locals
       ELSE /\ Fail(PortError)
            /\ UNCHANGED Serial_Port
    /\ UNCHANGED <<Fields, cmdsSinceKeepAlive, tx, rx>>
    /\ UNCHANGED lastMove
    /\ UNCHANGED devVars
    /\ UNCHANGED codecVars
    /\ UNCHANGED discVars
    /\ UNCHANGED trackVars

\* return: the value is ReturnValue(call.name)
StepReturn ==
    /\ At("return")
    /\ todo' = <<>>
    /\ result' = Returned
    /\ Forget
    /\ UNCHANGED <<Fields, Serial_Port, cmdsSinceKeepAlive, tx, rx>>
    /\ UNCHANGED lastMove
    /\ UNCHANGED devVars
    /\ UNCHANGED codecVars
    /\ UNCHANGED discVars
    /\ UNCHANGED trackVars

Constructs(scales) ==
    \E arg \in CtorArgs, scale \in scales, opens \in BOOLEAN : Construct(arg, scale, opens)

\* every method, on every channel
Next ==
    \/ Constructs({3})
    \/ CallInitialize(Channels)
    \/ CallIdentify(Channels)
    \/ CallEnable_Channel(Channels)
    \/ CallDisable_Channel(Channels)
    \/ CallHome(Channels)
    \/ CallMove_Absolute(Channels, {-5, 5})
    \/ CallgetPosition(Channels)
    \/ Callget_status_Update(Channels)
    \/ CallgetEncCounter(Channels)
    \/ CallClose_Port
    \/ CallOpen_Port
    \/ StepWrite(MaxUnacked, FALSE)
    \/ StepResetInput
    \/ StepResetOutput
    \/ StepSleep
    \/ StepWaitRead
    \/ StepWaitExit
    \/ StepReadUnpack
    \/ StepRaise
    \/ StepClose
    \/ StepOpen
    \/ StepReturn
    \/ DeviceReceive
    \/ DeviceDone

Spec == Init /\ [][Next]_vars

\* moves and position requests, with every position and scale factor
NextUnits ==
    \/ Constructs(ScaleNums)
    \/ CallMove_Absolute(Channels, PosNums)
    \/ CallgetPosition(Channels)
    \/ StepWrite(MaxUnacked, TRUE)
    \/ StepResetInput
    \/ StepResetOutput
    \/ StepWaitRead
    \/ StepWaitExit
    \/ StepReadUnpack
    \/ StepRaise
    \/ StepReturn
    \/ DeviceReceive
    \/ DeviceDone

UnitsSpec == Init /\ [][NextUnits]_vars

\* the methods that read nothing, on channel 1, with every command counted
NextKeepAlive ==
    \/ Constructs({3})
    \/ CallInitialize({1})
    \/ CallIdentify({1})
    \/ CallEnable_Channel({1})
    \/ CallDisable_Channel({1})
    \/ StepWrite(KeepAliveLimit, FALSE)
    \/ StepResetInput
    \/ StepResetOutput
    \/ StepSleep
    \/ StepReturn
    \/ DeviceReceive

KeepAliveSpec == Init /\ [][NextKeepAlive]_vars

---------------------------------------------------------------------------
(* The header codec on its own: five fields are packed with '<HBBBB' and   *)
(* the six bytes are unpacked with '<HHBB', as getHWinfo unpacks a header. *)

\* message identifiers the module packs
HeaderIds == {MGMSG_HW_REQ_INFO, MGMSG_MOD_IDENTIFY, MGMSG_MOT_MOVE_HOME,
              MGMSG_MOT_ACK_DCSTATUSUPDATE, TwoTo16 - 1}

\* parameter bytes: the ones the module packs, and the largest
HeaderParams == {0, 1, 2, 255}

\* destination bytes: a cube, two bays, and a payload-carrying destination
HeaderDests == {33, 34, 80, 208}

InitCodec ==
    /\ Idle
    /\ header \in HeaderIds \X HeaderParams \X HeaderParams \X HeaderDests \X {source_byte}
    /\ packed = <<>>
    /\ unpacked = <<>>
    /\ ports = <<>>
    /\ NoDiscovery
    /\ NoTracking

\* pack('<HBBBB', msgid, param1, param2, dest, source)
Pack ==
    /\ packed = <<>>
    /\ packed' = pack_HBBBB(header[1], header[2], header[3], header[4], header[5])
    /\ UNCHANGED <<header, unpacked>>
    /\ UNCHANGED <<ctorArg, Controller_Type, posScaleFactor, Serial_Port, session, call,
                   todo, Rx, opWrites, opReads, result, cmdsSinceKeepAlive, lastMove,
                   tx, rx>>
    /\ UNCHANGED devVars
    /\ UNCHANGED discVars
    /\ UNCHANGED trackVars

\* unpack('<HHBB', header)
Unpack ==
    /\ packed # <<>>
    /\ unpacked = <<>>
    /\ unpacked' = unpack_HHBB(packed)
    /\ UNCHANGED <<header, packed>>
    /\ UNCHANGED <<ctorArg, Controller_Type, posScaleFactor, Serial_Port, session, call,
                   todo, Rx, opWrites, opReads, result, cmdsSinceKeepAlive, lastMove,
                   tx, rx>>
    /\ UNCHANGED devVars
    /\ UNCHANGED discVars
    /\ UNCHANGED trackVars

NextCodec ==
    \/ Pack
    \/ Unpack

CodecSpec == InitCodec /\ [][NextCodec]_vars

---------------------------------------------------------------------------
(* Discovery: getAllDevices, getDestination and getHWinfo of pyKinesis.py  *)
(* and findControllers of solarTrackingUpdated.py, which calls them.  A    *)
(* port is what comports() says of it (desc, its description, a string of  *)
(* characters), whether serial.Serial can open it (opens) and whether a    *)
(* controller behind it answers (answers).  A port is named by its index.  *)

\* comports() enumerates at most this many ports
MaxPorts == 2

\* 'APT'
Marker == <<"A", "P", "T">>

\* s begins with sub
StartsWith(sub, s) == Len(s) >= Len(sub) /\ SubSeq(s, 1, Len(sub)) = sub

\* sub in s, for strings
RECURSIVE Contains(_, _)
Contains(sub, s) ==
    IF Len(s) < Len(sub) THEN FALSE
    ELSE IF SubSeq(s, 1, Len(sub)) = sub THEN TRUE
    ELSE Contains(sub, Tail(s))

PortKinds ==
    { [desc |-> <<"A", "P", "T">>,      opens |-> TRUE,  answers |-> TRUE],
      [desc |-> <<"x", "A", "P", "T">>, opens |-> TRUE,  answers |-> FALSE],
      [desc |-> <<"A", "P", "T", "x">>, opens |-> FALSE, answers |-> TRUE],
      [desc |-> <<"A", "P", "x", "T">>, opens |-> TRUE,  answers |-> TRUE],
      [desc |-> <<"a", "p", "t">>,      opens |-> TRUE,  answers |-> TRUE] }

PortLists == UNION {[1..n -> PortKinds] : n \in 0..MaxPorts}

\* [port for port in ports if 'APT' in port[1]]
getAllDevices(ps) ==
    SelectSeq([i \in 1..Len(ps) |-> i], LAMBDA i : Contains(Marker, ps[i].desc))

getDestinationAlwaysCube(r) == 80

\* what getDestination returns when its read returned r
getDestinationReturns(r) == IF Len(r) > 0 THEN 80 ELSE 17

\* the bytes unpack('<I8sHI48s12xHHH', data) needs
HWInfoSize == 84

\* serialnum, model, hwtype, swversion, notes, hwversion, modstate, nchans
unpack_I8sHI48s12xHHH(b) ==
    <<unpackI(b, 1), SubSeq(b, 5, 12), unpackH(b, 13), unpackI(b, 15), SubSeq(b, 19, 66),
      unpackH(b, 79), unpackH(b, 81), unpackH(b, 83)>>

\* what getHWinfo returns: (serialnum, model, nchans)
getHWinfoReturns(data) ==
    LET info == unpack_I8sHI48s12xHHH(data)
    IN  <<valueOf(info[1]), info[2], info[8]>>

\* deviceParams
DeviceParams(comPort, hw) ==
    [COM_Port |-> comPort, Serial_Number |-> hw[1], Model |-> hw[2],
     Number_of_Channels |-> hw[3]]

sessionVars == <<ctorArg, Controller_Type, posScaleFactor, Serial_Port, session, call, todo,
                 Rx, opWrites, opReads, result, cmdsSinceKeepAlive, lastMove>>

\* comm: the port the loop of findControllers is at
comm == detectedDevices[fcIndex]

InitDiscovery ==
    /\ Idle
    /\ header = NoHeader
    /\ packed = <<>>
    /\ unpacked = <<>>
    /\ ports \in PortLists
    /\ NoDiscovery
    /\ NoTracking

\* findControllers up to its loop
FindControllers ==
    /\ fc = "idle"
    /\ detectedDevices' = getAllDevices(ports)
    /\ deviceInfo' = <<>>
    /\ fcIndex' = 1
    /\ fc' = IF getAllDevices(ports) = <<>> THEN "done" ELSE "open"
    /\ UNCHANGED <<ports, fcExc, ser, gdRx, fcDest, length, probed, tx, rx>>
    /\ UNCHANGED <<sessionVars, codecVars, devVars>>
    /\ UNCHANGED trackVars

\* ser=serial.Serial(port=comm, ...): nothing catches what it raises
FCOpen ==
    /\ fc = "open"
    /\ IF ports[comm].opens
       THEN /\ ser' = "open"
            /\ fc' = "flushInput"
            /\ UNCHANGED fcExc
       ELSE /\ fc' = "raised"
            /\ fcExc' = "SerialException"
            /\ UNCHANGED ser
    /\ tx' = <<>>
    /\ rx' = <<>>
    /\ UNCHANGED <<ports, detectedDevices, deviceInfo, fcIndex, gdRx, fcDest, length, probed>>
    /\ UNCHANGED <<sessionVars, codecVars, devVars>>
    /\ UNCHANGED trackVars

\* flushInput(), in findControllers and in getDestination
FCFlushInput ==
    /\ fc \in {"flushInput", "gd_flushInput"}
    /\ rx' = <<>>
    /\ fc' = IF fc = "flushInput" THEN "flushOutput" ELSE "gd_flushOutput"
    /\ UNCHANGED <<ports, detectedDevices, deviceInfo, fcIndex, fcExc, ser, gdRx, fcDest,
                   length, probed, tx>>
    /\ UNCHANGED <<sessionVars, codecVars, devVars>>
    /\ UNCHANGED trackVars

\* ser.flushOutput() in findControllers
FCFlushOutput ==
    /\ fc = "flushOutput"
    /\ tx' = <<>>
    /\ fc' = "gd_write"
    /\ UNCHANGED <<ports, detectedDevices, deviceInfo, fcIndex, fcExc, ser, gdRx, fcDest,
                   length, probed, rx>>
    /\ UNCHANGED <<sessionVars, codecVars, devVars>>
    /\ UNCHANGED trackVars

\* getDestination: serial.write(pack('<HBBBB', 0x0005, 0x00, 0x00, dest, 0x01))
GDWrite ==
    /\ fc = "gd_write"
    /\ tx' = Append(tx, pack_HBBBB(MGMSG_HW_REQ_INFO, 0, 0, 80, 1))
    /\ probed' = probed \cup {comm}
    /\ fc' = "gd_read"
    /\ UNCHANGED <<ports, detectedDevices, deviceInfo, fcIndex, fcExc, ser, gdRx, fcDest,
                   length, rx>>
    /\ UNCHANGED <<sessionVars, codecVars, devVars>>
    /\ UNCHANGED trackVars

\* getDestination: rx = serial.read(90)
GDRead ==
    /\ fc = "gd_read"
    /\ \E k \in 0..Min(90, Len(rx)) :
           /\ gdRx' = Take(rx, k)
           /\ rx' = Drop(rx, k)
    /\ fc' = "gd_flushInput"
    /\ UNCHANGED <<ports, detectedDevices, deviceInfo, fcIndex, fcExc, ser, fcDest, length,
                   probed, tx>>
    /\ UNCHANGED <<sessionVars, codecVars, devVars>>
    /\ UNCHANGED trackVars

\* getDestination: serial.flushOutput() and the return; dest = getDestination(ser)
GDFlushOutput ==
    /\ fc = "gd_flushOutput"
    /\ tx' = <<>>
    /\ fcDest' = getDestinationReturns(gdRx)
    /\ fc' = "branch"
    /\ UNCHANGED <<ports, detectedDevices, deviceInfo, fcIndex, fcExc, ser, gdRx, length,
                   probed, rx>>
    /\ UNCHANGED <<sessionVars, codecVars, devVars>>
    /\ UNCHANGED trackVars

\* if dest != 0x50: print(...)
FCBranch ==
    /\ fc = "branch"
    /\ gdRx' = <<>>
    /\ fc' = IF fcDest # 80 THEN "close" ELSE "hw_write"
    /\ UNCHANGED <<ports, detectedDevices, deviceInfo, fcIndex, fcExc, ser, fcDest, length,
                   probed, tx, rx>>
    /\ UNCHANGED <<sessionVars, codecVars, devVars>>
    /\ UNCHANGED trackVars

\* getHWinfo: serial.write(msg)
HWWrite ==
    /\ fc = "hw_write"
    /\ tx' = Append(tx, pack_HBBBB(MGMSG_HW_REQ_INFO, 0, 0, fcDest, 1))
    /\ fc' = "hw_header"
    /\ UNCHANGED <<ports, detectedDevices, deviceInfo, fcIndex, fcExc, ser, gdRx, fcDest,
                   length, probed, rx>>
    /\ UNCHANGED <<sessionVars, codecVars, devVars>>
    /\ UNCHANGED trackVars

\* getHWinfo: unpack('<HHBB', bytearray(serial.read(6)))
HWHeader ==
    /\ fc = "hw_header"
    /\ \E k \in 0..Min(6, Len(rx)) :
           /\ rx' = Drop(rx, k)
           /\ IF k = 6
              THEN /\ length' = unpack_HHBB(Take(rx, k))[2]
                   /\ fc' = "hw_data"
                   /\ UNCHANGED fcExc
              ELSE /\ fc' = "raised"
                   /\ fcExc' = "struct.error"
                   /\ UNCHANGED length
    /\ UNCHANGED <<ports, detectedDevices, deviceInfo, fcIndex, ser, gdRx, fcDest, probed, tx>>
    /\ UNCHANGED <<sessionVars, codecVars, devVars>>
    /\ UNCHANGED trackVars

\* getHWinfo: unpack('<I8sHI48s12xHHH', bytearray(serial.read(length))), the
\* return, and deviceInfo.append(deviceParams)
HWData ==
    /\ fc = "hw_data"
    /\ \E k \in 0..Min(length, Len(rx)) :
           /\ rx' = Drop(rx, k)
           /\ IF k = HWInfoSize
              THEN /\ deviceInfo' =
                          Append(deviceInfo, DeviceParams(comm, getHWinfoReturns(Take(rx, k))))
                   /\ fc' = "close"
                   /\ UNCHANGED fcExc
              ELSE /\ fc' = "raised"
                   /\ fcExc' = "struct.error"
                   /\ UNCHANGED deviceInfo
    /\ length' = 0
    /\ UNCHANGED <<ports, detectedDevices, fcIndex, ser, gdRx, fcDest, probed, tx>>
    /\ UNCHANGED <<sessionVars, codecVars, devVars>>
    /\ UNCHANGED trackVars

\* ser.close(); del ser; the next port, or return deviceInfo
FCCloseKeepsHandle ==
    /\ fc = "close"
    /\ ser' = ser
    /\ tx' = <<>>
    /\ rx' = <<>>
    /\ fcDest' = 0
    /\ fcIndex' = fcIndex + 1
    /\ fc' = IF fcIndex = Len(detectedDevices) THEN "done" ELSE "open"
    /\ UNCHANGED <<ports, detectedDevices, deviceInfo, fcExc, gdRx, length, probed>>
    /\ UNCHANGED <<sessionVars, codecVars, devVars>>
    /\ UNCHANGED trackVars

FCClose ==
    /\ fc = "close"
    /\ ser' = "closed"
    /\ tx' = <<>>
    /\ rx' = <<>>
    /\ fcDest' = 0
    /\ fcIndex' = fcIndex + 1
    /\ fc' = IF fcIndex = Len(detectedDevices) THEN "done" ELSE "open"
    /\ UNCHANGED <<ports, detectedDevices, deviceInfo, fcExc, gdRx, length, probed>>
    /\ UNCHANGED <<sessionVars, codecVars, devVars>>
    /\ UNCHANGED trackVars

\* what is behind the port receives the oldest message in flight; a
\* controller that answers sends its reply
PortReceive ==
    /\ ser = "open"
    /\ tx # <<>>
    /\ LET reply == IF ports[comm].answers THEN DeviceReply(Head(tx)) ELSE <<>>
       IN  /\ reply # <<>> => Len(rx) <= MaxBacklog
           /\ rx' = rx \o reply
    /\ tx' = Tail(tx)
    /\ UNCHANGED discVars
    /\ UNCHANGED trackVars
    /\ UNCHANGED <<sessionVars, codecVars, devVars>>

NextDiscovery ==
    \/ FindControllers
    \/ FCOpen
    \/ FCFlushInput
    \/ FCFlushOutput
    \/ GDWrite
    \/ GDRead
    \/ GDFlushOutput
    \/ FCBranch
    \/ HWWrite
    \/ HWHeader
    \/ HWData
    \/ FCClose
    \/ PortReceive

DiscoverySpec == InitDiscovery /\ [][NextDiscovery]_vars

---------------------------------------------------------------------------
(* Home and Move_Absolute alone, with a controller that confirms, and with *)
(* one that stops confirming.                                              *)

\* a waiting Home or Move_Absolute has written its command
CommandAwaited ==
    /\ call.name \in {"Home", "Move_Absolute"}
    /\ call.wait
    /\ opWrites # <<>>

NextWait ==
    \/ Constructs({3})
    \/ CallHome(Channels)
    \/ CallMove_Absolute(Channels, {5})
    \/ StepWrite(MaxUnacked, FALSE)
    \/ StepResetInput
    \/ StepResetOutput
    \/ StepWaitRead
    \/ StepWaitExit
    \/ StepReturn
    \/ DeviceReceive
    \/ DeviceDone

\* the scheduling: a read that has something to return returns, the loop
\* tests its condition, the controller receives what is sent to it and
\* the stage arrives
FairWaitSpec ==
    /\ Init
    /\ [][NextWait]_vars
    /\ WF_vars(StepWaitRead)
    /\ WF_vars(StepWaitExit)
    /\ WF_vars(DeviceReceive)
    /\ WF_vars(DeviceDone)

\* the controller sends no confirmation once the command of a waiting
\* call is written
NextSilent ==
    \/ Constructs({3})
    \/ CallHome(Channels)
    \/ CallMove_Absolute(Channels, {5})
    \/ StepWrite(MaxUnacked, FALSE)
    \/ StepResetInput
    \/ StepResetOutput
    \/ StepWaitRead
    \/ StepWaitExit
    \/ StepReturn
    \/ DeviceReceive
    \/ (~CommandAwaited /\ DeviceDone)

SilentSpec == Init /\ [][NextSilent]_vars

---------------------------------------------------------------------------
(* The start of solarTrackingUpdated.py: findControllers, then a session   *)
(* on a port it found, which is asked for its position and status.         *)

NextRead ==
    \/ FindControllers
    \/ FCOpen
    \/ FCFlushInput
    \/ FCFlushOutput
    \/ GDWrite
    \/ GDRead
    \/ GDFlushOutput
    \/ FCBranch
    \/ HWWrite
    \/ HWHeader
    \/ HWData
    \/ FCClose
    \/ PortReceive
    \/ (fc = "done" /\ deviceInfo # <<>> /\ Constructs({3}))
    \/ CallgetPosition({1})
    \/ Callget_status_Update({1})
    \/ CallgetEncCounter({1})
    \/ StepWrite(MaxUnacked, FALSE)
    \/ StepResetInput
    \/ StepResetOutput
    \/ StepReadUnpack
    \/ StepReturn
    \/ (session = "constructed" /\ DeviceReceive)

ReadSpec == InitDiscovery /\ [][NextRead]_vars

---------------------------------------------------------------------------
(* solarTrackingUpdated.py once findControllers has returned the port of   *)
(* each axis: the two sessions, the homing, the first moves and the        *)
(* tracking loop, with the control panel (solarTrackingGUI.py) writing the *)
(* settings file next to it.  A call of a method is one step of the        *)
(* script: it raises when its statements do (an argument that cannot be    *)
(* packed, a port that is not open) and else the script goes on.           *)

\* the tracking loop goes round while fewer moves than this were issued on an axis
MaxMoves == 3

\* n degrees, over PosDen
Degrees(n) == n * PosDen

\* azimuths getObjectPosition returns: 90, 270, and a quarter below 360
Real_Azimuths == {Degrees(90), Degrees(270), Degrees(360) - 1}

\* elevations getObjectPosition returns: -30 and 45
Real_Elevations == {-Degrees(30), Degrees(45)}

\* offsets the control panel reaches, over PosDen
OffsetNums == {0, 2}

\* the two ifs that fold an angle: below 0 it gains 360, above 180 it
\* becomes 360 minus itself
Complement(p) ==
    LET a == IF p < 0 THEN Degrees(360) + p ELSE p
    IN  IF a > Degrees(180) THEN Degrees(360) - a ELSE a

InitTracking ==
    /\ Idle
    /\ header = NoHeader
    /\ packed = <<>>
    /\ unpacked = <<>>
    /\ ports = <<>>
    /\ NoDiscovery
    /\ script = "construct_azimuth"
    /\ controller = [a \in Axes |-> NoController]
    /\ tracking_params = defaultParams
    /\ trackingFile = defaultParams
    /\ azimuthPosition = 0
    /\ elevationPosition = 0

\* what the script leaves alone: the session of the single-session model,
\* the link, the codec and findControllers
offScript == <<Serial_Port, session, call, todo, Rx, opWrites, opReads, result,
               cmdsSinceKeepAlive, lastMove, tx, rx, devVars, codecVars, discVars>>

\* ThorController(port, scale_factors, Controller_Type='cube') for axis:
\* 'cube' is a valid type, and a port that does not open leaves the session
\* without Serial_Port
ScriptConstructs(pc, axis, scale, next) ==
    /\ script = pc
    /\ ValidType(Lower("cube"))
    /\ \E opens \in BOOLEAN :
           controller' = [controller EXCEPT ![axis] =
                              [Serial_Port |-> IF opens THEN "open" ELSE "unset",
                               invoked |-> {},
                               moves |-> 0]]
    /\ ctorArg' = "cube"
    /\ Controller_Type' = Lower("cube")
    /\ posScaleFactor' = scale
    /\ script' = next
    /\ UNCHANGED <<tracking_params, trackingFile, azimuthPosition, elevationPosition>>
    /\ UNCHANGED offScript

\* the controller after a call of the method name
Invoked(c, name) ==
    [c EXCEPT !.invoked = @ \cup {name},
              !.moves = IF name = "Move_Absolute" THEN @ + 1 ELSE @]

\* the script calls a method on the session of axis.  The statements of
\* the method raise when the first one is the raise of an argument that
\* cannot be packed, or when the port is not open; nothing catches that
ScriptCalls(pc, axis, name, program, next) ==
    /\ script = pc
    /\ controller' = [controller EXCEPT ![axis] = Invoked(@, name)]
    /\ script' = IF Head(program).op = "raise" \/ controller[axis].Serial_Port # "open"
                 THEN "raised"
                 ELSE next
    /\ UNCHANGED <<tracking_params, trackingFile, azimuthPosition, elevationPosition>>
    /\ UNCHANGED <<ctorArg, Controller_Type, posScaleFactor>>
    /\ UNCHANGED offScript

\* getObjectPosition(...) and the folding of both angles, before the loop
FirstPosition ==
    /\ script = "position"
    /\ \E az \in Real_Azimuths, el \in Real_Elevations :
           /\ azimuthPosition' = Complement(az)
           /\ elevationPosition' = Complement(el)
    /\ script' = "move_elevation"
    /\ UNCHANGED <<controller, tracking_params, trackingFile>>
    /\ UNCHANGED <<ctorArg, Controller_Type, posScaleFactor>>
    /\ UNCHANGED offScript

\* if elevationPosition<0: print(...) else: Move_Absolute(elevationPosition,1,wait=True)
FirstMoveElevation ==
    IF elevationPosition < 0
    THEN /\ script = "move_elevation"
         /\ script' = "move_azimuth"
         /\ UNCHANGED <<controller, tracking_params, trackingFile, azimuthPosition,
                        elevationPosition>>
         /\ UNCHANGED <<ctorArg, Controller_Type, posScaleFactor>>
         /\ UNCHANGED offScript
    ELSE ScriptCalls("move_elevation", "elevation", "Move_Absolute",
                     Move_Absolute(elevationPosition, 1, TRUE), "move_azimuth")

\* X = input(...), then tracking_params = {...}
StartTracking ==
    /\ script = "input"
    /\ tracking_params' = defaultParams
    /\ script' = "read_params"
    /\ UNCHANGED <<controller, trackingFile, azimuthPosition, elevationPosition>>
    /\ UNCHANGED <<ctorArg, Controller_Type, posScaleFactor>>
    /\ UNCHANGED offScript

\* try: tracking_params = read_tracking_params() / except: pass: the file
\* is read, or it cannot be read or parsed and the parameters stay
ReadParams ==
    /\ script = "read_params"
    /\ \A a \in Axes : controller[a].moves < MaxMoves
    /\ \E read \in BOOLEAN :
           tracking_params' = IF read THEN trackingFile ELSE tracking_params
    /\ script' = "loop_position"
    /\ UNCHANGED <<controller, trackingFile, azimuthPosition, elevationPosition>>
    /\ UNCHANGED <<ctorArg, Controller_Type, posScaleFactor>>
    /\ UNCHANGED offScript

\* getObjectPosition(...), the offsets added, both angles folded
LoopPosition ==
    /\ script = "loop_position"
    /\ \E az \in Real_Azimuths, el \in Real_Elevations :
           /\ azimuthPosition' = Complement(az + tracking_params.azimuthOffset)
           /\ elevationPosition' = Complement(el + tracking_params.elevationOffset)
    /\ script' = "loop_move_elevation"
    /\ UNCHANGED <<controller, tracking_params, trackingFile>>
    /\ UNCHANGED <<ctorArg, Controller_Type, posScaleFactor>>
    /\ UNCHANGED offScript

\* sleep(tracking_params['updateRate'])
LoopSleep ==
    /\ script = "sleep"
    /\ script' = "kill"
    /\ UNCHANGED <<controller, tracking_params, trackingFile, azimuthPosition,
                   elevationPosition>>
    /\ UNCHANGED <<ctorArg, Controller_Type, posScaleFactor>>
    /\ UNCHANGED offScript

\* if tracking_params['killTracking'] == 1: break
LoopKill ==
    /\ script = "kill"
    /\ script' = IF tracking_params.killTracking = 1 THEN "close_elevation"
                 ELSE "read_params"
    /\ UNCHANGED <<controller, tracking_params, trackingFile, azimuthPosition,
                   elevationPosition>>
    /\ UNCHANGED <<ctorArg, Controller_Type, posScaleFactor>>
    /\ UNCHANGED offScript

\* Close_Port() on the session of axis: self.Serial_Port.close()
ScriptCloses(pc, axis, next) ==
    /\ script = pc
    /\ IF controller[axis].Serial_Port = "unset"
       THEN /\ controller' = [controller EXCEPT ![axis] = Invoked(@, "Close_Port")]
            /\ script' = "raised"
       ELSE /\ controller' = [controller EXCEPT ![axis] =
                                  [Invoked(@, "Close_Port") EXCEPT !.Serial_Port = "closed"]]
            /\ script' = next
    /\ UNCHANGED <<tracking_params, trackingFile, azimuthPosition, elevationPosition>>
    /\ UNCHANGED <<ctorArg, Controller_Type, posScaleFactor>>
    /\ UNCHANGED offScript

\* the control panel: an offset button is pressed often enough for the
\* offset to become o, and the parameters are written
GUIOffset ==
    /\ \E o \in OffsetNums \ {trackingFile.azimuthOffset} :
           trackingFile' = [trackingFile EXCEPT !.azimuthOffset = o]
    /\ UNCHANGED <<script, controller, tracking_params, azimuthPosition, elevationPosition>>
    /\ UNCHANGED <<ctorArg, Controller_Type, posScaleFactor>>
    /\ UNCHANGED offScript

\* the control panel: Stop Tracking is pressed
GUIStop ==
    /\ trackingFile.killTracking # 1
    /\ trackingFile' = [trackingFile EXCEPT !.killTracking = 1]
    /\ UNCHANGED <<script, controller, tracking_params, azimuthPosition, elevationPosition>>
    /\ UNCHANGED <<ctorArg, Controller_Type, posScaleFactor>>
    /\ UNCHANGED offScript

\* the script, with scale factor 2000.0 for 1919.64..., and the control panel
NextTracking ==
    \/ ScriptConstructs("construct_azimuth", "azimuth", 4000, "construct_elevation")
    \/ ScriptConstructs("construct_elevation", "elevation", 4000, "enable_azimuth")
    \* azimuthController.Enable_Channel(1), elevationController.Enable_Channel(1)
    \/ ScriptCalls("enable_azimuth", "azimuth", "Enable_Channel", Enable_Channel(1),
                   "enable_elevation")
    \/ ScriptCalls("enable_elevation", "elevation", "Enable_Channel", Enable_Channel(1),
                   "home_azimuth")
    \* azimuthController.Home(1), elevationController.Home(1): wait is true by default
    \/ ScriptCalls("home_azimuth", "azimuth", "Home", Home(1, TRUE), "home_elevation")
    \/ ScriptCalls("home_elevation", "elevation", "Home", Home(1, TRUE), "position")
    \/ FirstPosition
    \/ FirstMoveElevation
    \* azimuthController.Move_Absolute(azimuthPosition,1,wait=True)
    \/ ScriptCalls("move_azimuth", "azimuth", "Move_Absolute",
                   Move_Absolute(azimuthPosition, 1, TRUE), "input")
    \/ StartTracking
    \/ ReadParams
    \/ LoopPosition
    \* elevationController.Move_Absolute(elevationPosition,1,wait=False)
    \/ ScriptCalls("loop_move_elevation", "elevation", "Move_Absolute",
                   Move_Absolute(elevationPosition, 1, FALSE), "loop_move_azimuth")
    \* azimuthController.Move_Absolute(azimuthPosition,1,wait=False)
    \/ ScriptCalls("loop_move_azimuth", "azimuth", "Move_Absolute",
                   Move_Absolute(azimuthPosition, 1, FALSE), "sleep")
    \/ LoopSleep
    \/ LoopKill
    \/ ScriptCloses("close_elevation", "elevation", "close_azimuth")
    \/ ScriptCloses("close_azimuth", "azimuth", "end")
    \/ GUIOffset
    \/ GUIStop

TrackingSpec == InitTracking /\ [][NextTracking]_vars

---------------------------------------------------------------------------
(* What the description of the module says, as properties of the model.    *)
(* A method's locals (call, Rx, opWrites, opReads) are gone once it has    *)
(* returned, so a property of a finished method is a property of the state *)
(* in which its return statement is next.                                   *)

\* the method named name is about to return
Returning(name) == At("return") /\ call.name = name

\* the identifiers of the messages the method has written so far
WrittenIds == [i \in 1..Len(opWrites) |-> msgId(opWrites[i])]

\* the destination byte of the description: 0x50, or 0x20 + channel
DescribedDest(ch) == IF Lower(ctorArg) = "cube" THEN 80 ELSE 32 + ch

\* C1: the number of commands written since the last keep-alive stays
\* below 50: a keep-alive is written before the 50th such command.
KeepAliveBeforeFiftieth == cmdsSinceKeepAlive < KeepAliveLimit

\* the code a waiting method waits for
AwaitedCode == IF call.name = "Home" THEN Homed ELSE Move_Complete

\* a waiting Home or Move_Absolute has left its loop
PastWait ==
    /\ call.name \in {"Home", "Move_Absolute"}
    /\ call.wait
    /\ opWrites # <<>>
    /\ todo # <<>>
    /\ ~At("wait")

\* C2: Home and Move_Absolute called with wait true leave their loop, and
\* so return, only after a read has returned exactly the two bytes of the
\* completion code (0x0444 for Home, 0x0464 for Move_Absolute, low byte
\* first); no other chunk ends the wait.
WaitEndsOnlyOnCode ==
    PastWait => /\ Rx = AwaitedCode
                /\ Rx = (IF call.name = "Home" THEN <<68, 4>> ELSE <<100, 4>>)
                /\ opReads >= 1

\* C2 happens: a waiting Move_Absolute is about to return
WaitEndsOnlyOnCodeWitness ==
    /\ Returning("Move_Absolute")
    /\ call.wait
    /\ Rx = <<100, 4>>

\* C3: Home called with wait false reads nothing from the port: all it
\* writes is the home command (0x0443), then, after the flush, a
\* keep-alive.
HomeNoWaitReadsNothing ==
    (call.name = "Home" /\ ~call.wait) =>
        /\ opReads = 0
        /\ Rx = <<>>
        /\ \A i \in 1..Len(todo) : todo[i].op \notin {"wait", "read_unpack"}
        /\ Returning("Home") =>
               WrittenIds = <<MGMSG_MOT_MOVE_HOME, MGMSG_MOT_ACK_DCSTATUSUPDATE>>

\* C3 happens: a Home that does not wait is about to return
HomeNoWaitReadsNothingWitness ==
    /\ Returning("Home")
    /\ ~call.wait
    /\ Len(opWrites) = 2

\* C4: get_destination_byte(channel) is 0x50 on a cube session, whatever
\* the channel, and 0x20 + channel on a benchtop session; the messages a
\* method writes carry that byte (with bit 7 set when a payload follows).
DestinationByte ==
    /\ session = "constructed" =>
           \A ch \in Channels :
               get_destination_byte(ch) =
                   (IF Lower(ctorArg) = "cube" THEN 80 ELSE 32 + ch)
    /\ \A i \in 1..Len(opWrites) :
           msgId(opWrites[i]) # MGMSG_MOD_IDENTIFY =>
               ReplySource(opWrites[i]) = DescribedDest(call.channel)

\* C4 happens: a benchtop session has written a message to its last bay
DestinationByteWitness ==
    /\ Lower(ctorArg) = "benchtop"
    /\ opWrites # <<>>
    /\ opWrites[1][5] = 32 + MaxChannel

\* the move-absolute messages the method has written
MovesWritten == {i \in 1..Len(opWrites) : msgId(opWrites[i]) = MGMSG_MOT_MOVE_ABSOLUTE}

\* the device-unit target in the payload of a move-absolute message
TargetIn(msg) == valueOf(unpackI(msg, 9))

Truncates(t, position) ==
    LET n == posScaleFactor * position
        d == ScaleDen * PosDen
    IN  IF n >= 0 THEN t * d <= n /\ n < (t + 1) * d
        ELSE (t - 1) * d < n /\ n <= t * d

ReportsLastTarget ==
    /\ Returning("getPosition")
    /\ lastMove # NoMove
    /\ msgId(Rx) = MGMSG_MOT_GET_POSCOUNTER
    /\ TargetIn(Rx) = lastMove[2]

Abs(x) == IF x >= 0 THEN x ELSE -x

\* the value v = <<low, high, s>>, which stands for (low + 65536 * high) /
\* (s / ScaleDen), is within one device unit of position / PosDen
WithinOneDeviceUnit(v, position) ==
    Abs(valueOf(<<v[1], v[2]>>) * ScaleDen * PosDen * posScaleFactor
        - position * v[3] * posScaleFactor)
      <= ScaleDen * PosDen * v[3]

\* C6: when the controller reports as its position counter the target it
\* received from Move_Absolute(p), the value getPosition returns differs
\* from p by no more than one device unit (1 / scale).
PositionRoundTrip ==
    ReportsLastTarget => WithinOneDeviceUnit(ReturnValue(call.name), lastMove[1])

\* C6 happens: after Move_Absolute(1.25) at 1.5 units per real unit,
\* getPosition is about to return the position the controller reports
PositionRoundTripWitness ==
    /\ ReportsLastTarget
    /\ lastMove = <<5, 1>>
    /\ posScaleFactor = 3

\* C7: a header packed with '<HBBBB' and unpacked with '<HHBB' gives back
\* the message identifier, the destination and the source, and a length
\* whose low byte is the first parameter and whose high byte is the second.
HeaderRoundTrip ==
    unpacked # <<>> =>
        /\ unpacked[1] = header[1]
        /\ unpacked[2] = header[2] + 256 * header[3]
        /\ unpacked[2] % 256 = header[2]
        /\ unpacked[2] \div 256 = header[3]
        /\ unpacked[3] = header[4]
        /\ unpacked[4] = header[5]

\* C7 happens: a header with two different non-zero parameters was
\* packed and unpacked
HeaderRoundTripWitness ==
    /\ unpacked # <<>>
    /\ header[2] = 2
    /\ header[3] = 255
    /\ header[1] = MGMSG_MOT_ACK_DCSTATUSUPDATE

\* the methods that end with a keep-alive, and the command each writes
KeepAliveMethods ==
    [ Identify          |-> MGMSG_MOD_IDENTIFY,
      Enable_Channel    |-> MGMSG_MOD_SET_CHANENABLESTATE,
      Disable_Channel   |-> MGMSG_MOD_SET_CHANENABLESTATE,
      Home              |-> MGMSG_MOT_MOVE_HOME,
      Move_Absolute     |-> MGMSG_MOT_MOVE_ABSOLUTE,
      getPosition       |-> MGMSG_MOT_REQ_POSCOUNTER,
      get_status_Update |-> MGMSG_MOT_REQ_DCSTATUSUPDATE,
      getEncCounter     |-> MGMSG_MOT_REQ_ENCCOUNTER ]

\* the keep-alive the description has the method write for channel ch
DescribedKeepAlive(ch) == <<146, 4, 0, 0, DescribedDest(ch), 1>>

\* C8: Identify, Enable_Channel, Disable_Channel, Home, Move_Absolute,
\* getPosition, get_status_Update and getEncCounter, when they return,
\* have written their command and, last of all, a keep-alive (0x0492)
\* addressed to the destination byte of the channel they were called for.
KeepAliveClosesMethod ==
    (At("return") /\ call.name \in DOMAIN KeepAliveMethods) =>
        /\ Len(opWrites) >= 2
        /\ opWrites[Len(opWrites)] = DescribedKeepAlive(call.channel)
        /\ \E i \in 1..(Len(opWrites) - 1) : WrittenIds[i] = KeepAliveMethods[call.name]

\* C8 happens: get_status_Update on the last bay of a benchtop controller
\* is about to return
KeepAliveClosesMethodWitness ==
    /\ Returning("get_status_Update")
    /\ Lower(ctorArg) = "benchtop"
    /\ call.channel = MaxChannel

\* the writes of a method that writes the enable-state command and a
\* keep-alive n times over
EnableRounds(n) ==
    [i \in 1..(2 * n) |-> IF i % 2 = 1 THEN MGMSG_MOD_SET_CHANENABLESTATE
                          ELSE MGMSG_MOT_ACK_DCSTATUSUPDATE]

\* C9: Enable_Channel and Disable_Channel write the enable-state command
\* (0x0210) followed by a keep-alive once on a cube session and twice on a
\* benchtop session.
EnableWritesPerTopology ==
    (At("return") /\ call.name \in {"Enable_Channel", "Disable_Channel"}) =>
        WrittenIds = EnableRounds(IF Lower(ctorArg) = "cube" THEN 1 ELSE 2)

\* C9 happens: Disable_Channel on a benchtop session is about to return
EnableWritesPerTopologyWitness ==
    /\ Returning("Disable_Channel")
    /\ Lower(ctorArg) = "benchtop"
    /\ Len(opWrites) = 4

\* C10: a Controller_Type that is, lower-cased, neither "cube" nor
\* "benchtop" makes the constructor raise at once: no serial port is
\* opened, there is no session, and so no method ever runs.
InvalidTypeRejected ==
    (session # "new" /\ Lower(ctorArg) \notin {"cube", "benchtop"}) =>
        /\ session = "raised"
        /\ result = Raised("Exception")
        /\ Serial_Port = "unset"
        /\ call = NoCall
        /\ todo = <<>>
        /\ tx = <<>>

\* C10 happens: the constructor was given "rack" and has raised
InvalidTypeRejectedWitness ==
    /\ ctorArg = "rack"
    /\ session = "raised"

\* findControllers is over: it returned or an exception left it
DiscoveryOver == fc \in {"done", "raised"}

\* C11: a port that cannot be opened does not end discovery: once
\* discovery is over (and no reply failed to decode), every candidate port
\* that can be opened has been probed.
OpenFailureKeepsProbing ==
    (DiscoveryOver /\ fcExc # "struct.error") =>
        \A j \in 1..Len(detectedDevices) :
            ports[detectedDevices[j]].opens => detectedDevices[j] \in probed

\* C12: between two ports, and once discovery is over, the handle
\* discovery opened is closed again.
HandleClosedAfterPort ==
    fc \in {"open", "done", "raised"} => ser # "open"

\* C13: getDestination returns 0x11 when its read returned nothing and
\* 0x50 when it returned at least one byte; a port that returned nothing
\* gets no device record and raises nothing, and discovery goes on to the
\* ports after it.
NoReplyIsDeviceAbsent ==
    /\ fc = "branch" => fcDest = (IF gdRx = <<>> THEN 17 ELSE 80)
    /\ fcDest = 17 =>
           /\ fc \in {"branch", "close"}
           /\ fcExc = ""
           /\ \A i \in 1..Len(deviceInfo) : deviceInfo[i].COM_Port # comm
    /\ fc = "raised" =>
           \/ fcExc = "SerialException" /\ ~ports[comm].opens
           \/ fcExc = "struct.error" /\ fcDest = 80
    /\ fc = "done" => \A j \in 1..Len(detectedDevices) : detectedDevices[j] \in probed

\* C13 happens: the first port did not reply, the second was probed and
\* its device recorded
NoReplyIsDeviceAbsentWitness ==
    /\ fc = "done"
    /\ Len(detectedDevices) = 2
    /\ ~ports[detectedDevices[1]].answers
    /\ Len(deviceInfo) = 1
    /\ deviceInfo[1].COM_Port = detectedDevices[2]

\* the description d has the characters A, P, T next to each other
HasAPT(d) ==
    \E j \in 1..(Len(d) - 2) : d[j] = "A" /\ d[j + 1] = "P" /\ d[j + 2] = "T"

\* C14: getAllDevices returns the enumerated ports whose description
\* contains 'APT', all of them and no other, in the order of enumeration.
MarkerFilter ==
    fc # "idle" =>
        /\ \A j \in 1..(Len(detectedDevices) - 1) : detectedDevices[j] < detectedDevices[j + 1]
        /\ {detectedDevices[j] : j \in 1..Len(detectedDevices)}
               = {i \in 1..Len(ports) : HasAPT(ports[i].desc)}

\* C14 happens: of two ports only the second has the marker, and not at
\* the start of its description
MarkerFilterWitness ==
    /\ fc # "idle"
    /\ Len(ports) = 2
    /\ ports[2].desc = <<"x", "A", "P", "T">>
    /\ detectedDevices = <<2>>

\* the bytes the reply layout of a reading method has
Layout == [getPosition |-> 12, getEncCounter |-> 12, get_status_Update |-> 20]

\* the bytes the read of this step took from the port
BytesRead == Len(rx) - Len(rx')

\* C15: a read that returns fewer bytes than the layout requires (6 for
\* the header and the declared length for the payload in getHWinfo, 12 in
\* getPosition and getEncCounter, 20 in get_status_Update) ends the
\* operation in struct.error: no device record is added, no value is
\* returned.
ShortReadIsDecodingError ==
    [][ /\ (fc = "hw_header" /\ fc' # fc /\ BytesRead < 6) =>
               (fc' = "raised" /\ fcExc' = "struct.error" /\ deviceInfo' = deviceInfo)
        /\ (fc = "hw_data" /\ fc' # fc /\ BytesRead < length) =>
               (fc' = "raised" /\ fcExc' = "struct.error" /\ deviceInfo' = deviceInfo)
        /\ (At("read_unpack") /\ todo' # todo /\ BytesRead < Layout[call.name]) =>
               (todo' = <<>> /\ result' = Raised("struct.error"))
      ]_vars

\* C15 happens: discovery found a device, and a reading method of the
\* session on it has ended in struct.error
ShortReadIsDecodingErrorWitness ==
    /\ deviceInfo # <<>>
    /\ session = "constructed"
    /\ result = Raised("struct.error")

\* the reply the controller sends to the request of a reading method
ReplyId ==
    [getPosition       |-> MGMSG_MOT_GET_POSCOUNTER,
     getEncCounter     |-> MGMSG_MOT_GET_ENCCOUNTER,
     get_status_Update |-> MGMSG_MOT_GET_DCSTATUSUPDATE]

\* C16: what getPosition, getEncCounter and get_status_Update decode and
\* return is the controller's reply to their request: the bytes of
\* another message, arrived between the flush and the read, are not
\* taken for it.
DecodesOwnReply ==
    (At("return") /\ call.name \in DOMAIN ReplyId) =>
        /\ msgId(Rx) = ReplyId[call.name]
        /\ Len(Rx) = 6 + unpackH(Rx, 3)

\* C17: on a benchtop session the two enable-state messages of one
\* Enable_Channel or Disable_Channel call are the same bytes.
DoubleSendIdentical ==
    (At("return") /\ call.name \in {"Enable_Channel", "Disable_Channel"}
                  /\ Lower(ctorArg) = "benchtop") =>
        opWrites[1] = opWrites[3]

\* C18: the move-absolute message has identifier 0x0453 (bytes 53 04), a
\* length field of 6, the number of bytes that follow its six-byte
\* header, and as destination the destination byte of the channel with
\* bit 7 set.
MoveMessageHeader ==
    \A i \in MovesWritten :
        /\ opWrites[i][1] = 83
        /\ opWrites[i][2] = 4
        /\ unpack_HHBB(opWrites[i])[2] = 6
        /\ Len(opWrites[i]) = 6 + 6
        /\ opWrites[i][5] = 128 + DescribedDest(call.channel)
        /\ opWrites[i][5] = 128 + get_destination_byte(call.channel)

\* C18 happens: a benchtop session has written a move to its last bay
MoveMessageHeaderWitness ==
    /\ MovesWritten = {1}
    /\ Lower(ctorArg) = "benchtop"
    /\ call.channel = MaxChannel
    /\ opWrites[1][5] = 160 + MaxChannel

\* the first field of the payload of a move-absolute message
ChanIdentIn(msg) == unpackH(msg, 7)

\* C19 as stated: the first payload field is the index of the channel.
MoveCarriesChannelIndex ==
    \A i \in MovesWritten : ChanIdentIn(opWrites[i]) = call.channel

\* C19: the first payload field of the move-absolute message is 1,
\* whatever the channel; the channel shows in the destination byte only.
MoveChanIdentIsOne ==
    \A i \in MovesWritten :
        /\ ChanIdentIn(opWrites[i]) = 1
        /\ ReplySource(opWrites[i]) = DescribedDest(call.channel)

\* C19 happens: a move on channel 2 was written with 1 in the field
MoveChanIdentIsOneWitness ==
    /\ MovesWritten = {1}
    /\ call.channel = 2
    /\ ChanIdentIn(opWrites[1]) = 1

\* the two 16-bit halves, low first, of t as a 32-bit two's complement
TwosComplement(t) == <<t % TwoTo16, (t \div TwoTo16) % TwoTo16>>

\* C20: a Move_Absolute whose target is negative does not fail on
\* encoding: it writes the target as a signed 32-bit field and goes on
\* like any other move.
NegativeMoveEncodes ==
    (call.name = "Move_Absolute" /\ todo # <<>> /\ call.position < 0) =>
        /\ ~At("raise")
        /\ \A i \in MovesWritten :
               \E t \in -TwoTo16..0 :
                   /\ Truncates(t, call.position)
                   /\ unpackI(opWrites[i], 9) = TwosComplement(t)

\* the short message of six bytes: identifier (low byte first), two
\* parameters, destination, source
ShortMessage(lo, hi, p1, p2, d) == <<lo, hi, p1, p2, d, source_byte>>

\* the messages written so far are the first of those expected
WrittenSoFar(expected) ==
    /\ Len(opWrites) <= Len(expected)
    /\ \A i \in 1..Len(opWrites) : opWrites[i] = expected[i]

\* C21: Initialize(channel) writes the message 0x0005 and then the message
\* 0x0018, both short messages to get_destination_byte(channel), and
\* nothing else; it reads nothing; once the second message is written,
\* all that is left is the reset of the input buffer, the reset of the
\* output buffer and the return, so that the output buffer is empty when
\* Initialize returns.
InitializeWritesTwoThenFlushes ==
    call.name = "Initialize" =>
        LET d == get_destination_byte(call.channel)
            expected == <<ShortMessage(5, 0, 0, 0, d), ShortMessage(24, 0, 0, 0, d)>>
        IN  /\ d = DescribedDest(call.channel)
            /\ WrittenSoFar(expected)
            /\ opReads = 0
            /\ Rx = <<>>
            /\ \A i \in 1..Len(todo) : todo[i].op \notin {"wait", "read_unpack"}
            /\ Len(opWrites) = 2 =>
                   todo \in {<<reset_input_buffer, reset_output_buffer, Return>>,
                             <<reset_output_buffer, Return>>,
                             <<Return>>}
            /\ Returning("Initialize") => opWrites = expected /\ tx = <<>>

\* C21 happens: Initialize on the last bay of a benchtop is about to return
InitializeWritesTwoThenFlushesWitness ==
    /\ Returning("Initialize")
    /\ Lower(ctorArg) = "benchtop"
    /\ call.channel = MaxChannel
    /\ Len(opWrites) = 2

\* C22: Identify(channel) writes one message 0x0223, to 0x50 with first
\* parameter 1 on a cube and to 0x11 with the channel as first parameter
\* on a benchtop, and after it one keep-alive; it writes nothing else.
IdentifyWritesOneThenKeepAlive ==
    call.name = "Identify" =>
        LET identify == IF Lower(ctorArg) = "cube"
                        THEN ShortMessage(35, 2, 1, 0, 80)
                        ELSE ShortMessage(35, 2, call.channel, 0, 17)
            keepalive == ShortMessage(146, 4, 0, 0, DescribedDest(call.channel))
        IN  /\ WrittenSoFar(<<identify, keepalive>>)
            /\ Returning("Identify") => opWrites = <<identify, keepalive>>

\* C22 happens: Identify on the last bay of a benchtop is about to return
IdentifyWritesOneThenKeepAliveWitness ==
    /\ Returning("Identify")
    /\ Lower(ctorArg) = "benchtop"
    /\ call.channel = MaxChannel
    /\ WrittenIds = <<MGMSG_MOD_IDENTIFY, MGMSG_MOT_ACK_DCSTATUSUPDATE>>

\* C24: in the script no handle of findControllers is open while a session
\* exists: a session is constructed only once findControllers has
\* returned, and by then it has closed the handle of every port it opened.
HandleClosedBeforeSession ==
    session # "new" =>
        /\ fc = "done"
        /\ ser = "closed"
        /\ fcIndex = Len(detectedDevices) + 1

\* C24 happens: a session is open on a port after findControllers went
\* through two ports
HandleClosedBeforeSessionWitness ==
    /\ Serial_Port = "open"
    /\ Len(detectedDevices) = MaxPorts
    /\ ser = "closed"

\* C26 as stated: a waiting Move_Absolute leaves its loop only once the
\* controller has received the move this call wrote and has completed it.
MoveWaitEndsOnOwnCompletion ==
    (PastWait /\ call.name = "Move_Absolute") =>
        /\ \A i \in 1..Len(tx) : msgId(tx[i]) # MGMSG_MOT_MOVE_ABSOLUTE
        /\ devBusy = "idle"
        /\ devPos = TargetIn(opWrites[1])

\* C28 as stated: a reset of the output buffer discards nothing: whenever
\* it is executed, every message written has reached the controller.
ResetOutputDiscardsNothing == [][StepResetOutput => tx' = tx]_vars

\* C29 as stated: a session whose construction did not raise holds a
\* serial connection.
ConstructedHoldsConnection == session = "constructed" => Serial_Port # "unset"

\* C23 as stated: when the controller sends no confirmation after the
\* command of a waiting Home or Move_Absolute, the call stays in its loop:
\* it does not reach the flush, the keep-alive or the return.
UnconfirmedWaitNeverEnds ==
    (CommandAwaited /\ todo # <<>>) =>
        /\ At("wait")
        /\ Len(opWrites) = 1

\* C27 as stated: a waiting Home or Move_Absolute that is in its loop
\* leaves it, once the controller has sent its confirmation, however the
\* bytes of the confirmation are split over the reads.
ConfirmationEndsWait ==
    (At("wait") /\ Serial_Port = "open") ~> ~At("wait")

\* the script is over: it reached its end, or an exception ended it
ScriptOver == script \in {"end", "raised"}

\* C25 as stated: in the script, a session on which Home or a waiting
\* Move_Absolute was called is one on which Initialize was called before.
InitializeBeforeBlockingCall ==
    \A a \in Axes :
        (controller[a].invoked \cap {"Home", "Move_Absolute"} # {}) =>
            "Initialize" \in controller[a].invoked

\* C30 as stated: once the parameters read have killTracking = 1, no new
\* iteration of the tracking loop begins, and when the script is over it
\* has reached its end with the connections of both sessions closed.
KillEndsTrackingAndCloses ==
    /\ script = "read_params" => tracking_params.killTracking = 0
    /\ (ScriptOver /\ tracking_params.killTracking = 1) =>
           /\ script = "end"
           /\ \A a \in Axes : controller[a].Serial_Port = "closed"

====
